---------------------------- MODULE Spec2Model ----------------------------
(***************************************************************************)
(* Model of the transform-and-load stage of the ETL pipeline               *)
(* (src/etl/src/transform.py): normalize_amount, ensure_database_exists,   *)
(* run_ddl, load_data and the driver main().                               *)
(*                                                                         *)
(* Three specifications share the module:                                  *)
(*   SpecNorm   - normalize_amount applied to one cell;                    *)
(*   SpecEnsure - concurrent callers of ensure_database_exists;            *)
(*   Spec       - sequential runs of main() against one warehouse.         *)
(***************************************************************************)
EXTENDS Integers, Sequences, FiniteSets, TLC

VARIABLES
    nx, nres, npc,                  \* normalize_amount: argument, result, position
    existing,                       \* pg_database: names of the databases that exist
    epc, eseen,                     \* ensure_database_exists callers: position, local 'exists'
    tables,                         \* catalogue of the target database: tables and indexes that exist
    companies, charges,             \* committed rows of the two tables
    txc, txg,                       \* rows as seen inside the open transaction
    pc,                             \* position of the driver run
    csv, mode,                      \* arguments of the run: input file, --if-exists
    df_companies, df_charges,       \* derived frames handed to load_data
    pre,                            \* committed rows when load_data began
    log,                            \* statements this run has executed against the server
    cause,                          \* why the run failed ("none" while it has not)
    rerun, once                     \* load_data called again with the same frames; rows after the first call

vars == <<nx, nres, npc, existing, epc, eseen, tables, companies, charges,
          txc, txg, pc, csv, mode, df_companies, df_charges, pre, log,
          cause, rerun, once>>

normVars   == <<nx, nres, npc>>
ensureVars == <<epc, eseen>>
driverVars == <<tables, companies, charges, txc, txg, pc, csv, mode,
                df_companies, df_charges, pre, log, cause, rerun, once>>

---------------------------------------------------------------------------
(* Bounds of the model.                                                    *)

\* longest fractional part of a sampled amount text
MaxFracLen == 3
\* most rows in one input file
MaxRows == 2
\* concurrent callers of ensure_database_exists
NumCallers == 3

---------------------------------------------------------------------------
(* Text and decimals.  A text is a sequence of one-character strings; a    *)
(* cell that pandas reports as missing is NA.                              *)

NA == <<"<NA>">>

DigitChars == <<"0", "1", "2", "3", "4", "5", "6", "7", "8", "9">>

IsDigit(c) == \E i \in 1..10 : DigitChars[i] = c

DigitVal(c) == (CHOOSE i \in 1..10 : DigitChars[i] = c) - 1

AllDigits(s) == \A i \in 1..Len(s) : IsDigit(s[i])

Zeros(n) == [i \in 1..n |-> 0]

RECURSIVE StripZeros(_)
\* int(coefficient): leading zeros carry no value; zero keeps one digit
StripZeros(ds) ==
    IF Len(ds) <= 1 THEN (IF ds = <<>> THEN <<0>> ELSE ds)
    ELSE IF ds[1] = 0 THEN StripZeros(Tail(ds)) ELSE ds

RECURSIVE ToNat(_)
ToNat(ds) == IF ds = <<>> THEN 0 ELSE 10 * ToNat(SubSeq(ds, 1, Len(ds) - 1)) + ds[Len(ds)]

IndexOf(s, cs) ==
    IF \E i \in 1..Len(s) : s[i] \in cs
    THEN CHOOSE i \in 1..Len(s) : s[i] \in cs /\ \A j \in 1..(i - 1) : s[j] \notin cs
    ELSE 0

Lower(c) ==
    CASE c = "N" -> "n" [] c = "A" -> "a" [] c = "S" -> "s" [] c = "I" -> "i"
      [] c = "F" -> "f" [] c = "E" -> "e" [] c = "T" -> "t" [] c = "Y" -> "y"
      [] OTHER -> c

LowerText(s) == [i \in 1..Len(s) |-> Lower(s[i])]

\* values of decimal.Decimal, and the outcomes of normalize_amount
Fin(sign, coef, exp) == [kind |-> "fin", sign |-> sign, coef |-> coef, exp |-> exp]
Special(kind, sign)  == [kind |-> kind, sign |-> sign, coef |-> <<>>, exp |-> 0]
None   == Special("none", 0)
Raised == Special("raise", 0)

DigitVals(s) == [i \in 1..Len(s) |-> DigitVal(s[i])]

\* the digits of the exponent part, as a number
ExpVal(eDig, eNeg) == IF eNeg THEN 0 - ToNat(DigitVals(eDig)) ELSE ToNat(DigitVals(eDig))

\* digits [. [digits]] | . digits, with an optional exponent
ParseParts(sign, ip, fp, hasExp, eDig, eNeg) ==
    IF AllDigits(ip) /\ AllDigits(fp) /\ ip \o fp # <<>>
       /\ (hasExp => (eDig # <<>> /\ AllDigits(eDig)))
    THEN Fin(sign, StripZeros(DigitVals(ip \o fp)),
             (IF hasExp THEN ExpVal(eDig, eNeg) ELSE 0) - Len(fp))
    ELSE Special("invalid", sign)

Unsigned(s) == IF s # <<>> /\ s[1] \in {"-", "+"} THEN Tail(s) ELSE s

ParseMantissa(sign, mant, dot, hasExp, expo) ==
    ParseParts(sign,
               IF dot = 0 THEN mant ELSE SubSeq(mant, 1, dot - 1),
               IF dot = 0 THEN <<>> ELSE SubSeq(mant, dot + 1, Len(mant)),
               hasExp, Unsigned(expo), expo # <<>> /\ expo[1] = "-")

ParseNumber(sign, mant, hasExp, expo) ==
    ParseMantissa(sign, mant, IndexOf(mant, {"."}), hasExp, expo)

ParseExponent(sign, low, ePos) ==
    ParseNumber(sign,
                IF ePos = 0 THEN low ELSE SubSeq(low, 1, ePos - 1),
                ePos # 0,
                IF ePos = 0 THEN <<>> ELSE SubSeq(low, ePos + 1, Len(low)))

NanBody(low, p) ==
    /\ Len(low) >= Len(p)
    /\ SubSeq(low, 1, Len(p)) = p
    /\ AllDigits(SubSeq(low, Len(p) + 1, Len(low)))

ParseUnsigned(sign, low) ==
    IF low \in {<<"i", "n", "f">>, <<"i", "n", "f", "i", "n", "i", "t", "y">>}
    THEN Special("inf", sign)
    ELSE IF NanBody(low, <<"n", "a", "n">>) \/ NanBody(low, <<"s", "n", "a", "n">>)
    THEN Special("nan", sign)
    ELSE ParseExponent(sign, low, IndexOf(low, {"e"}))

\* Decimal(str(x)): [sign] (digits [. [digits]] | . digits) [e [sign] digits]
\*                  | [sign] inf | infinity | nan [digits] | snan [digits]
ParseDecimal(s) ==
    ParseUnsigned(IF s # <<>> /\ s[1] = "-" THEN 1 ELSE 0, LowerText(Unsigned(s)))

RECURSIVE Incr(_)
\* coefficient + 1
Incr(ds) ==
    IF ds = <<>> THEN <<1>>
    ELSE IF ds[Len(ds)] < 9
         THEN [ds EXCEPT ![Len(ds)] = @ + 1]
         ELSE Append(Incr(SubSeq(ds, 1, Len(ds) - 1)), 0)

\* DECIMAL16_2_ABS_MAX = Decimal("1e14"): 10^AbsMaxExp
AbsMaxExp == 14

\* d.copy_abs() >= DECIMAL16_2_ABS_MAX, for a finite d
AtLeastAbsMax(d) == d.coef # <<0>> /\ Len(d.coef) + d.exp > AbsMaxExp

\* d.quantize(Decimal("0.01"), rounding=ROUND_HALF_UP), for a finite d
QuantizeHalfUp(d) ==
    IF d.exp >= -2
    THEN Fin(d.sign, StripZeros(d.coef \o Zeros(d.exp + 2)), -2)
    ELSE LET k    == (0 - 2) - d.exp
             n    == Len(d.coef)
             kept == IF k >= n THEN <<>> ELSE SubSeq(d.coef, 1, n - k)
             nxt  == IF k > n THEN 0 ELSE d.coef[n - k + 1]
         IN  Fin(d.sign, StripZeros(IF nxt >= 5 THEN Incr(kept) ELSE kept), -2)

\* lines 98-103, on the parsed value
NormalizeDecimal(d) ==
    CASE d.kind = "invalid" -> None
      [] d.kind = "nan"     -> Raised
      [] d.kind = "inf"     -> None
      [] OTHER -> IF AtLeastAbsMax(d) THEN None ELSE QuantizeHalfUp(d)

normalize_amount(x) ==
    IF x = NA \/ x = <<>> THEN None ELSE NormalizeDecimal(ParseDecimal(x))

---------------------------------------------------------------------------
(* normalize_amount on its own: one cell in, one outcome out.              *)

Signs == {<<>>, <<"-">>, <<"+">>}

Nines(n) == [i \in 1..n |-> "9"]

IntSamples ==
    { <<>>, <<"0">>, <<"1", "2">>, Nines(AbsMaxExp - 1), Nines(AbsMaxExp),
      <<"1">> \o [i \in 1..AbsMaxExp |-> "0"] }

FracDigits == {"0", "4", "5", "9"}

FracTails ==
    {<<>>} \cup
    UNION { { <<".">> \o f : f \in [1..n -> FracDigits] } : n \in 0..MaxFracLen }

OtherTexts ==
    { <<"a", "b", "c">>, <<"1", "2", "a">>, <<"1", ".", "2", ".", "3">>,
      <<"N", "a", "N">>, <<"s", "N", "a", "N">>, <<"-", "n", "a", "n">>,
      <<"n", "a", "n", "1">>, <<"i", "n", "f">>, <<"-", "I", "n", "f">>,
      <<"I", "n", "f", "i", "n", "i", "t", "y">>,
      <<"1", "e", "1", "4">>, <<"9", ".", "9", "9", "e", "1", "3">>,
      <<"1", "E", "-", "3">>, <<"1", "e">>, <<"1", "2", "3", "4", "5", "e", "-", "3">> }

NormInputs ==
    {NA} \cup OtherTexts \cup
    { s \o i \o f : s \in Signs, i \in IntSamples, f \in FracTails }

NormInit ==
    /\ nx \in NormInputs
    /\ nres = None
    /\ npc = "call"

\* transform.py:85-103, one call
NormApply ==
    /\ npc = "call"
    /\ nres' = normalize_amount(nx)
    /\ npc' = "returned"
    /\ UNCHANGED nx

---------------------------------------------------------------------------
(* ensure_database_exists: existence check, then CREATE DATABASE.          *)

DbNames == {"warehouse", "staging"}

Callers == 1..NumCallers

\* SELECT 1 FROM pg_database WHERE datname = :d
DatabaseExists(dbs, d) == d \in dbs

\* CREATE DATABASE "d": the server refuses a name that is taken
CreateDatabase(dbs, d) ==
    IF d \in dbs
    THEN [dbs |-> dbs, err |-> "DuplicateDatabase"]
    ELSE [dbs |-> dbs \cup {d}, err |-> "none"]

\* a caller: target database, position
EnsureInit ==
    /\ existing \in {{"postgres"}, {"postgres", "staging"}}
    /\ epc \in [Callers -> [db : DbNames, at : {"select"}]]
    /\ eseen = [c \in Callers |-> FALSE]

\* transform.py:65-68
EnsureSelect(c) ==
    /\ epc[c].at = "select"
    /\ eseen' = [eseen EXCEPT ![c] = DatabaseExists(existing, epc[c].db)]
    /\ epc' = [epc EXCEPT ![c].at = "branch"]
    /\ UNCHANGED existing

\* transform.py:69-71
EnsureCreate(c) ==
    /\ epc[c].at = "branch"
    /\ ~eseen[c]
    /\ existing' = CreateDatabase(existing, epc[c].db).dbs
    /\ epc' = [epc EXCEPT ![c].at =
                 IF CreateDatabase(existing, epc[c].db).err = "none"
                 THEN "returned" ELSE "raised"]
    /\ UNCHANGED eseen

\* transform.py:72-73
EnsureSkip(c) ==
    /\ epc[c].at = "branch"
    /\ eseen[c]
    /\ epc' = [epc EXCEPT ![c].at = "returned"]
    /\ UNCHANGED <<existing, eseen>>

---------------------------------------------------------------------------
(* The input file and pandas.read_csv.                                     *)

NAs == "<NA>"

MUST_HAVE_COLUMNS ==
    {"id", "name", "company_id", "amount", "status", "created_at", "paid_at"}

Row(id, cid, name, amount, status, created, paid) ==
    [id |-> id, company_id |-> cid, name |-> name, amount |-> amount,
     status |-> status, created_at |-> created, paid_at |-> paid]

AmtSmall == <<"1", "2", ".", "3", "4", "5">>
AmtEdge  == Nines(AbsMaxExp) \o <<".", "9", "9", "9">>
AmtWord  == <<"a", "b", "c">>
AmtSNaN  == <<"s", "N", "a", "N">>

\* rows an input file is made of
RowSamples ==
    { Row("c1", "C1", "Acme",      AmtSmall, "paid",     "2024-01-01", "2024-01-02"),
      Row("c2", "C1", "Acme Corp", AmtEdge,  "paid",     "2024-01-01", NAs),
      Row("c1", "C2", "Bolt",      AmtWord,  NAs,        "2024-01-03", NAs),
      Row(NAs,  "C2", "Bolt Inc",  AmtSmall, "paid",     "2024-01-01", NAs),
      Row("c2", "C2", "Bolt Ltd",  <<>>,     "refunded", "2024-01-04", "2024-01-05"),
      Row("c3", "C1", NAs,         AmtSNaN,  "paid",     "2024-01-01", NAs),
      Row("c3", NAs,  "Acme",      AmtSmall, "paid",     NAs,          NAs) }

Batches == UNION { [1..n -> RowSamples] : n \in 0..MaxRows }

File(exists, columns, rows) == [exists |-> exists, columns |-> columns, rows |-> rows]

NoFile == File(FALSE, {}, <<>>)

Inputs ==
    {NoFile}
    \cup { File(TRUE, MUST_HAVE_COLUMNS, b) : b \in Batches }
    \cup { File(TRUE, MUST_HAVE_COLUMNS \ {c}, b) :
             c \in MUST_HAVE_COLUMNS, b \in { x \in Batches : Len(x) <= 1 } }

\* keep_default_na plus na_values: cells read as missing
NaTexts ==
    { <<>>, <<"n", "u", "l", "l">>, <<"N", "o", "n", "e">>, <<"N", "A">>,
      <<"N", "/", "A">>, <<"N", "a", "N">>, <<"n", "a", "n">> }

IsNumericText(t) == ParseDecimal(t).kind \in {"fin", "inf"}

RECURSIVE StripTrailingZeros(_)
StripTrailingZeros(ds) ==
    IF ds # <<>> /\ ds[Len(ds)] = 0
    THEN StripTrailingZeros(SubSeq(ds, 1, Len(ds) - 1))
    ELSE ds

\* significant digits a float64 always carries exactly
FloatExactDigits == 15

DigitText(ds) == [i \in 1..Len(ds) |-> DigitChars[ds[i] + 1]]

SignText(d) == IF d.sign = 1 THEN <<"-">> ELSE <<>>

FracText(fp) == DigitText(IF fp = <<>> THEN <<0>> ELSE fp)

\* positional repr of coefficient * 10^-k, k > 0, the coefficient padded to
\* more than k digits
FloatFraction(d, pad, k) ==
    SignText(d) \o DigitText(SubSeq(pad, 1, Len(pad) - k)) \o <<".">>
    \o FracText(StripTrailingZeros(SubSeq(pad, Len(pad) - k + 1, Len(pad))))

FloatRepr(d) ==
    IF d.kind = "inf" THEN SignText(d) \o <<"i", "n", "f">>
    ELSE IF Len(StripTrailingZeros(d.coef)) > FloatExactDigits
    THEN SignText(d) \o <<"1">> \o [i \in 1..AbsMaxExp |-> "0"] \o <<".", "0">>
    ELSE IF d.exp >= 0
    THEN SignText(d) \o DigitText(d.coef \o Zeros(d.exp)) \o <<".", "0">>
    ELSE FloatFraction(d,
                       IF Len(d.coef) > 0 - d.exp THEN d.coef
                       ELSE Zeros(1 - d.exp - Len(d.coef)) \o d.coef,
                       0 - d.exp)

\* str(float(t)) of a numeric cell: values of at most FloatExactDigits
\* significant digits come back as written (shortest repr, with a fraction);
\* the one longer sample, float("99999999999999.999"), is 1e14, doubles
\* being 2^-6 apart there.
FloatStr(t) == FloatRepr(ParseDecimal(t))

AmountCells(rows, present, numeric) ==
    [i \in 1..Len(rows) |->
       IF i \notin present THEN NA
       ELSE IF numeric THEN FloatStr(rows[i].amount)
       ELSE rows[i].amount]

PresentAmounts(rows) == { i \in 1..Len(rows) : rows[i].amount \notin NaTexts }

\* the amount column as pandas types it: float64 when every present cell is
\* numeric, otherwise the cells stay text
AmountColumn(rows) ==
    AmountCells(rows, PresentAmounts(rows),
                \A i \in PresentAmounts(rows) : IsNumericText(rows[i].amount))

WithAmounts(rows, a) == [i \in 1..Len(rows) |-> [rows[i] EXCEPT !.amount = a[i]]]

read_csv_swallowing(f) ==
    IF ~f.exists \/ ~({"created_at", "paid_at"} \subseteq f.columns)
    THEN [err |-> "none", columns |-> MUST_HAVE_COLUMNS, rows |-> <<>>]
    ELSE [err |-> "none", columns |-> f.columns,
          rows |-> WithAmounts(f.rows, AmountColumn(f.rows))]

\* pd.read_csv(args.input, dtype=..., parse_dates=["created_at", "paid_at"], ...)
read_csv(f) ==
    IF ~f.exists
    THEN [err |-> "FileNotFoundError", columns |-> {}, rows |-> <<>>]
    ELSE IF ~({"created_at", "paid_at"} \subseteq f.columns)
    THEN [err |-> "ValueError", columns |-> {}, rows |-> <<>>]
    ELSE [err |-> "none", columns |-> f.columns,
          rows |-> WithAmounts(f.rows, AmountColumn(f.rows))]

\* missing = [c for c in MUST_HAVE_COLUMNS if c not in df.columns]
MissingColumns(columns) == MUST_HAVE_COLUMNS \ columns

---------------------------------------------------------------------------
(* Derivation of the two frames (main, steps 5 to 7).                      *)

Range(s) == { s[i] : i \in 1..Len(s) }

HasKeys(r) == r.id # NAs /\ r.company_id # NAs /\ r.created_at # NAs

\* df.dropna(subset=["id", "company_id", "created_at"])
DropNaKeys(rows) == SelectSeq(rows, HasKeys)

\* df["amount"].apply(normalize_amount)
AmountNorm(rows) == [i \in 1..Len(rows) |-> normalize_amount(rows[i].amount)]

Company(id, name) == [id |-> id, company_name |-> name]

RECURSIVE DropDuplicatesLast(_)
DropDuplicatesLast(recs) ==
    IF recs = <<>> THEN <<>>
    ELSE LET h == Head(recs)
             t == Tail(recs)
         IN  IF \E i \in 1..Len(t) : t[i].id = h.id
             THEN DropDuplicatesLast(t)
             ELSE <<h>> \o DropDuplicatesLast(t)

RECURSIVE DropDuplicates(_)
\* .drop_duplicates(subset=["company_id"]): the first row of each key stays
DropDuplicates(recs) ==
    IF recs = <<>> THEN <<>>
    ELSE LET n == Len(recs)
             l == recs[n]
             f == DropDuplicates(SubSeq(recs, 1, n - 1))
         IN  IF \E i \in 1..(n - 1) : recs[i].id = l.id THEN f ELSE Append(f, l)

HasCompanyId(r) == r.company_id # NAs

\* [["company_id", "name"]] renamed to (id, company_name)
Renamed(rows) == [i \in 1..Len(rows) |-> Company(rows[i].company_id, rows[i].name)]

\* df[["company_id", "name"]].dropna(...).drop_duplicates(...).rename(...)
DeriveCompanies(rows) ==
    DropDuplicates(Renamed(SelectSeq(rows, HasCompanyId)))

Charge(id, cid, amount, status, created, updated) ==
    [id |-> id, company_id |-> cid, amount |-> amount, status |-> status,
     created_at |-> created, updated_at |-> updated]

ChargeComplete(g) ==
    g.id # NAs /\ g.company_id # NAs /\ g.status # NAs /\ g.created_at # NAs

\* pd.DataFrame({...}).dropna(subset=["id", "company_id", "status", "created_at"])
DeriveCharges(rows, norm) ==
    SelectSeq([i \in 1..Len(rows) |->
                 Charge(rows[i].id, rows[i].company_id, norm[i],
                        IF rows[i].status = NAs THEN "unknown" ELSE rows[i].status,
                        rows[i].created_at, rows[i].paid_at)],
              ChargeComplete)

---------------------------------------------------------------------------
(* The server: catalogue, tables, statements, transactions.                *)

\* the statements of DDL, in order
DDL == <<"companies", "charges", "idx_charges_company_id", "idx_charges_created_at">>

\* CREATE TABLE / INDEX IF NOT EXISTS, every statement of DDL
RunDdlStatements(catalogue) == catalogue \cup Range(DDL)

Ids(rows) == { r.id : r \in rows }

Rows(c, g) == [companies |-> c, charges |-> g]

TruncateCompaniesOnly(c, g) == Rows({}, g)

TruncateNothing(c, g) == Rows(c, g)

TruncateReferencedOnly(c, g) ==
    Rows({ r \in c : \A x \in g : x.company_id # r.id }, {})

\* TRUNCATE TABLE charges, companies RESTART IDENTITY CASCADE
TruncateTables(c, g) == Rows({}, {})

St(rows, err) == [rows |-> rows, err |-> err]

InsertCompanyNoConflictClause(st, rec) ==
    IF st.err # "none" THEN st
    ELSE IF rec.id \in Ids(st.rows) THEN St(st.rows, "unique_violation")
    ELSE St(st.rows \cup {rec}, "none")

\* INSERT INTO companies ... ON CONFLICT (id) DO NOTHING, one parameter set
InsertCompany(st, rec) ==
    IF st.err # "none" THEN st
    ELSE IF rec.id \in Ids(st.rows) THEN st
    ELSE St(st.rows \cup {rec}, "none")

RECURSIVE InsertCompanies(_, _)
\* conn.execute(text(...), cmp_records): the parameter sets in order
InsertCompanies(st, recs) ==
    IF recs = <<>> THEN st
    ELSE InsertCompanies(InsertCompany(st, Head(recs)), Tail(recs))

\* amount DECIMAL(16,2): total digits
NumericPrecision == 16

\* a value the column cannot hold ("numeric field overflow")
NumericOverflow(a) == a.kind = "fin" /\ a.coef # <<0>> /\ Len(a.coef) > NumericPrecision

\* INSERT INTO charges ... ON CONFLICT (id) DO NOTHING, one parameter set,
\* against the column types and constraints of DDL
InsertCharge(st, cmp, rec) ==
    IF st.err # "none" THEN st
    ELSE IF NumericOverflow(rec.amount) THEN St(st.rows, "numeric_overflow")
    ELSE IF rec.id \in Ids(st.rows) THEN st
    ELSE IF rec.company_id = NAs \/ rec.status = NAs \/ rec.created_at = NAs
         THEN St(st.rows, "not_null_violation")
    ELSE IF rec.company_id \notin Ids(cmp) THEN St(st.rows, "foreign_key_violation")
    ELSE St(st.rows \cup {rec}, "none")

RECURSIVE InsertCharges(_, _, _)
\* conn.execute(text(...), chg_records): the parameter sets in order
InsertCharges(st, cmp, recs) ==
    IF recs = <<>> THEN st
    ELSE InsertCharges(InsertCharge(st, cmp, Head(recs)), cmp, Tail(recs))

TxExitAutocommit(committed, working, ok) == working

\* with engine.begin() as conn: commit on normal exit, rollback on an exception
TxExit(committed, working, ok) == IF ok THEN working ELSE committed

---------------------------------------------------------------------------
(* The driver main(): one run after another against the same server.       *)

\* --database, default
TargetDb == "warehouse"

Modes == {"append", "replace"}

NoRows == Rows({}, {})

DriverInit ==
    /\ tables = {}
    /\ companies = {}
    /\ charges = {}
    /\ txc = {}
    /\ txg = {}
    /\ pc = "idle"
    /\ csv = NoFile
    /\ mode = "append"
    /\ df_companies = <<>>
    /\ df_charges = <<>>
    /\ pre = NoRows
    /\ log = {}
    /\ cause = "none"
    /\ rerun = FALSE
    /\ once = [rows |-> NoRows, cause |-> "none"]

\* the process starts: argparse, transform.py:142-153
Start ==
    /\ pc = "idle"
    /\ \E f \in Inputs, m \in Modes :
         /\ csv' = f
         /\ mode' = m
    /\ pc' = "ensure_db"
    /\ pre' = Rows(companies, charges)
    /\ UNCHANGED <<existing, tables, companies, charges, txc, txg,
                   df_companies, df_charges, log, cause, rerun, once>>

\* the process ends (normally, by sys.exit(1) or by an uncaught exception):
\* nothing of the run outlives it but the server's state
Exit ==
    /\ pc \in {"done", "failed", "exit1", "crashed"}
    /\ pc' = "idle"
    /\ csv' = NoFile
    /\ mode' = "append"
    /\ df_companies' = <<>>
    /\ df_charges' = <<>>
    /\ pre' = NoRows
    /\ log' = {}
    /\ cause' = "none"
    /\ rerun' = FALSE
    /\ once' = [rows |-> NoRows, cause |-> "none"]
    /\ UNCHANGED <<existing, tables, companies, charges, txc, txg>>

\* step 1, ensure_database_exists(args.database), transform.py:59-73
EnsureDatabase ==
    /\ pc = "ensure_db"
    /\ IF DatabaseExists(existing, TargetDb)
       THEN UNCHANGED <<existing, log>>
       ELSE /\ existing' = CreateDatabase(existing, TargetDb).dbs
            /\ log' = log \cup {"create_database"}
    /\ pc' = "ddl"
    /\ UNCHANGED <<tables, companies, charges, txc, txg, csv, mode,
                   df_companies, df_charges, pre, cause, rerun, once>>

\* step 2, run_ddl(engine), transform.py:75-83
RunDDL ==
    /\ pc = "ddl"
    /\ tables' = RunDdlStatements(tables)
    /\ log' = IF tables' = tables THEN log ELSE log \cup {"create_schema"}
    /\ pc' = "read"
    /\ UNCHANGED <<existing, companies, charges, txc, txg, csv, mode,
                   df_companies, df_charges, pre, cause, rerun, once>>

\* the outcome of the read, then the column check
ReadOutcome(r) ==
    \/ /\ r.err = "FileNotFoundError"
       /\ pc' = "exit1"
       /\ cause' = "file_not_found"
    \/ /\ r.err = "ValueError"
       /\ pc' = "crashed"
       /\ cause' = "ValueError"
    \/ /\ r.err = "none"
       /\ MissingColumns(r.columns) # {}
       /\ pc' = "exit1"
       /\ cause' = "missing_columns"
    \/ /\ r.err = "none"
       /\ MissingColumns(r.columns) = {}
       /\ pc' = "transform"
       /\ UNCHANGED cause

\* steps 3 and 4, transform.py:163-184
ReadCsv ==
    /\ pc = "read"
    /\ ReadOutcome(read_csv(csv))
    /\ UNCHANGED <<existing, tables, companies, charges, txc, txg, csv, mode,
                   df_companies, df_charges, pre, log, rerun, once>>

\* steps 6 and 7 on the cleaned frame and its amount_norm column
Derive(df, norm) ==
    \/ /\ \E i \in 1..Len(df) : norm[i] = Raised
       /\ pc' = "crashed"
       /\ cause' = "InvalidOperation"
       /\ UNCHANGED <<df_companies, df_charges>>
    \/ /\ \A i \in 1..Len(df) : norm[i] # Raised
       /\ df_companies' = DeriveCompanies(df)
       /\ df_charges' = DeriveCharges(df, norm)
       /\ pc' = "load"
       /\ UNCHANGED cause

\* step 5 on the frame read
Clean(df) == Derive(df, AmountNorm(df))

\* steps 5 to 7, transform.py:186-223
Transform ==
    /\ pc = "transform"
    /\ Clean(DropNaKeys(read_csv(csv).rows))
    /\ UNCHANGED <<existing, tables, companies, charges, txc, txg, csv, mode,
                   pre, log, rerun, once>>

\* step 8, load_data: with engine.begin() as conn, transform.py:111
LoadBegin ==
    /\ pc = "load"
    /\ txc' = companies
    /\ txg' = charges
    /\ pre' = Rows(companies, charges)
    /\ pc' = IF mode = "replace" THEN "truncate" ELSE "ins_companies"
    /\ UNCHANGED <<existing, tables, companies, charges, csv, mode,
                   df_companies, df_charges, log, cause, rerun, once>>

\* transform.py:112-115
Truncate ==
    /\ pc = "truncate"
    /\ \/ /\ txc' = TruncateTables(txc, txg).companies
          /\ txg' = TruncateTables(txc, txg).charges
          /\ log' = log \cup {"truncate"}
          /\ pc' = "ins_companies"
          /\ UNCHANGED cause
       \/ /\ pc' = "abort"
          /\ cause' = "connection_lost"
          /\ UNCHANGED <<txc, txg, log>>
    /\ UNCHANGED <<existing, tables, companies, charges, csv, mode,
                   df_companies, df_charges, pre, rerun, once>>

\* the statement has run, or raised: the exception leaves the with block
CompaniesInserted(st) ==
    /\ txc' = st.rows
    /\ cause' = st.err
    /\ pc' = IF st.err = "none" THEN "ins_charges" ELSE "abort"

\* transform.py:117-127
LoadCompanies ==
    /\ pc = "ins_companies"
    /\ \/ /\ df_companies = <<>>
          /\ pc' = "ins_charges"
          /\ UNCHANGED <<txc, log, cause>>
       \/ /\ df_companies # <<>>
          /\ CompaniesInserted(InsertCompanies(St(txc, "none"), df_companies))
          /\ log' = log \cup {"insert_companies"}
       \/ /\ df_companies # <<>>
          /\ pc' = "abort"
          /\ cause' = "connection_lost"
          /\ UNCHANGED <<txc, log>>
    /\ UNCHANGED <<existing, tables, companies, charges, txg, csv, mode,
                   df_companies, df_charges, pre, rerun, once>>

ChargesInserted(st) ==
    /\ txg' = st.rows
    /\ cause' = st.err
    /\ pc' = IF st.err = "none" THEN "commit" ELSE "abort"

\* transform.py:129-139
LoadCharges ==
    /\ pc = "ins_charges"
    /\ \/ /\ df_charges = <<>>
          /\ pc' = "commit"
          /\ UNCHANGED <<txg, log, cause>>
       \/ /\ df_charges # <<>>
          /\ ChargesInserted(InsertCharges(St(txg, "none"), txc, df_charges))
          /\ log' = log \cup {"insert_charges"}
       \/ /\ df_charges # <<>>
          /\ pc' = "abort"
          /\ cause' = "connection_lost"
          /\ UNCHANGED <<txg, log>>
    /\ UNCHANGED <<existing, tables, companies, charges, txc, csv, mode,
                   df_companies, df_charges, pre, rerun, once>>

\* the with block ends normally: commit
Commit ==
    /\ pc = "commit"
    /\ companies' = TxExit(companies, txc, TRUE)
    /\ charges' = TxExit(charges, txg, TRUE)
    /\ txc' = {}
    /\ txg' = {}
    /\ pc' = IF rerun THEN "done" ELSE "report"
    /\ UNCHANGED <<existing, tables, csv, mode, df_companies, df_charges,
                   pre, log, cause, rerun, once>>

\* an exception leaves the with block: rollback, and the exception goes on
Rollback ==
    /\ pc = "abort"
    /\ companies' = TxExit(companies, txc, FALSE)
    /\ charges' = TxExit(charges, txg, FALSE)
    /\ txc' = {}
    /\ txg' = {}
    /\ pc' = "failed"
    /\ UNCHANGED <<existing, tables, csv, mode, df_companies, df_charges,
                   pre, log, cause, rerun, once>>

\* step 9, the two COUNT(*) queries, transform.py:229-232
Report ==
    /\ pc = "report"
    /\ pc' = "done"
    /\ UNCHANGED <<existing, tables, companies, charges, txc, txg, csv, mode,
                   df_companies, df_charges, pre, log, cause, rerun, once>>

\* load_data called a second time with the same frames and mode
Rerun ==
    /\ pc \in {"done", "failed"}
    /\ ~rerun
    /\ rerun' = TRUE
    /\ once' = [rows |-> Rows(companies, charges), cause |-> cause]
    /\ cause' = "none"
    /\ pc' = "load"
    /\ UNCHANGED <<existing, tables, companies, charges, txc, txg, csv, mode,
                   df_companies, df_charges, pre, log>>

---------------------------------------------------------------------------
(* Specifications.                                                         *)

NormIdle ==
    /\ nx = NA
    /\ nres = None
    /\ npc = "idle"

EnsureIdle ==
    /\ epc = [c \in Callers |-> [db |-> TargetDb, at |-> "returned"]]
    /\ eseen = [c \in Callers |-> FALSE]

Init ==
    /\ existing = {"postgres"}
    /\ DriverInit
    /\ NormIdle
    /\ EnsureIdle

Next ==
    \/ Start /\ UNCHANGED <<normVars, ensureVars>>
    \/ EnsureDatabase /\ UNCHANGED <<normVars, ensureVars>>
    \/ RunDDL /\ UNCHANGED <<normVars, ensureVars>>
    \/ ReadCsv /\ UNCHANGED <<normVars, ensureVars>>
    \/ Transform /\ UNCHANGED <<normVars, ensureVars>>
    \/ LoadBegin /\ UNCHANGED <<normVars, ensureVars>>
    \/ Truncate /\ UNCHANGED <<normVars, ensureVars>>
    \/ LoadCompanies /\ UNCHANGED <<normVars, ensureVars>>
    \/ LoadCharges /\ UNCHANGED <<normVars, ensureVars>>
    \/ Commit /\ UNCHANGED <<normVars, ensureVars>>
    \/ Rollback /\ UNCHANGED <<normVars, ensureVars>>
    \/ Report /\ UNCHANGED <<normVars, ensureVars>>
    \/ Rerun /\ UNCHANGED <<normVars, ensureVars>>
    \/ Exit /\ UNCHANGED <<normVars, ensureVars>>

Spec == Init /\ [][Next]_vars

InitNorm ==
    /\ existing = {"postgres"}
    /\ DriverInit
    /\ NormInit
    /\ EnsureIdle

NextNorm == NormApply /\ UNCHANGED <<existing, ensureVars, driverVars>>

SpecNorm == InitNorm /\ [][NextNorm]_vars

InitEnsure ==
    /\ EnsureInit
    /\ DriverInit
    /\ NormIdle

NextEnsure ==
    \E c \in Callers :
        \/ EnsureSelect(c) /\ UNCHANGED <<normVars, driverVars>>
        \/ EnsureCreate(c) /\ UNCHANGED <<normVars, driverVars>>
        \/ EnsureSkip(c) /\ UNCHANGED <<normVars, driverVars>>

SpecEnsure == InitEnsure /\ [][NextEnsure]_vars

---------------------------------------------------------------------------
(* Properties.                                                             *)

Committed == Rows(companies, charges)

InLoad == pc \in {"truncate", "ins_companies", "ins_charges", "commit", "abort"}

\* C1: load_data is atomic.  While the transaction is open nothing it wrote
\* is visible, and when any statement of the load has failed both tables
\* hold exactly the rows they held when the load began (in replace mode the
\* truncation is undone as well).
C1_LoadAtomic == (InLoad \/ pc = "failed") => Committed = pre

\* the charges insert failed in replace mode after the truncate and the
\* companies insert had written a company the warehouse did not have
C1_Witness ==
    /\ pc = "failed"
    /\ cause = "numeric_overflow"
    /\ mode = "replace"
    /\ {"truncate", "insert_companies", "insert_charges"} \subseteq log
    /\ companies # {}
    /\ \E i \in 1..Len(df_companies) : df_companies[i].id \notin Ids(companies)

\* C2: append idempotence.  When load_data has been called twice with the
\* same frames in append mode, the tables hold what they held after the first
\* call, the second call did not fail on a duplicate key, and it succeeded if
\* the first did (a lost connection apart).
C2_AppendIdempotent ==
    (rerun /\ mode = "append" /\ pc \in {"done", "failed"}
       /\ once.cause # "connection_lost")
    => /\ Committed = once.rows
       /\ cause # "unique_violation"
       /\ once.cause = "none" => cause \in {"none", "connection_lost"}

\* a second append of a batch with companies and charges has committed
C2_Witness ==
    /\ rerun /\ mode = "append" /\ pc = "done"
    /\ once.cause = "none"
    /\ df_companies # <<>> /\ df_charges # <<>>
    /\ {"insert_companies", "insert_charges"} \subseteq log

\* C3: replace idempotence.  When load_data has been called twice with the
\* same frames in replace mode, the tables hold what they held after the
\* first call.
C3_ReplaceIdempotent ==
    (rerun /\ mode = "replace" /\ pc \in {"done", "failed"}
       /\ once.cause # "connection_lost")
    => /\ Committed = once.rows
       /\ once.cause = "none" => cause \in {"none", "connection_lost"}

\* a second replace of a non-empty batch has committed
C3_Witness ==
    /\ rerun /\ mode = "replace" /\ pc = "done"
    /\ once.cause = "none"
    /\ df_charges # <<>>
    /\ charges # {}

\* C4: referential integrity.  Every company_id of a committed charge is the
\* id of a committed company, after any sequence of loads in any modes.
C4_ReferentialIntegrity == \A g \in charges : g.company_id \in Ids(companies)

\* a load has committed and a charge of an earlier load refers to a company
\* the last batch did not carry
C4_Witness ==
    /\ pc = "done"
    /\ \E g \in charges : g.company_id \notin Ids(Range(df_companies))

\* C5: every concurrent caller of ensure_database_exists returns normally,
\* and the database of a caller that returned exists.
C5_EveryCallerSucceeds ==
    \A c \in Callers :
        /\ epc[c].at # "raised"
        /\ epc[c].at = "returned" => epc[c].db \in existing

BadInput(f) == ~f.exists \/ ~(MUST_HAVE_COLUMNS \subseteq f.columns)

RowStatements == {"truncate", "insert_companies", "insert_charges"}

\* C6 as stated: a run whose input file is missing or lacks a mandatory
\* column ends with an error and has executed no mutating statement at all
\* (no database, table or index creation, no truncate, no insert).
C6_NoMutationAtAll ==
    (pc # "idle" /\ BadInput(csv))
    => /\ pc \in {"ensure_db", "ddl", "read", "exit1", "crashed"}
       /\ log = {}

\* C6 amended: a run whose input file is missing or lacks a mandatory column
\* ends with an error before load_data is reached: it executes no truncate
\* and no insert, and both tables hold the rows they held when it started.
C6_NoRowMutation ==
    (pc # "idle" /\ BadInput(csv))
    => /\ pc \in {"ensure_db", "ddl", "read", "exit1", "crashed"}
       /\ log \cap RowStatements = {}
       /\ Committed = pre

\* a run against a loaded warehouse has stopped on a file without 'status'
C6_Witness ==
    /\ pc = "exit1"
    /\ cause = "missing_columns"
    /\ "status" \notin csv.columns
    /\ companies # {}
    /\ charges # {}

\* the reference of C7: missing, empty, unparseable or not-a-number text and
\* magnitudes of 10^14 or more give Absent, anything else is rounded half
\* away from zero to two fractional digits
RefDecimal(d) ==
    IF d.kind # "fin" THEN None
    ELSE IF AtLeastAbsMax(d) THEN None
    ELSE QuantizeHalfUp(d)

RefNormalize(x) == IF x = NA \/ x = <<>> THEN None ELSE RefDecimal(ParseDecimal(x))

\* C7: normalize_amount never raises and agrees with the reference.
C7_NormalizeTotal ==
    npc = "returned" => (nres # Raised /\ nres = RefNormalize(nx))

\* C8: no amount handed to load_data is outside the range of the column
\* (each is Absent or below 10^14 in magnitude after rounding), and no run
\* fails on a numeric overflow.
C8_AmountsFitColumn ==
    /\ \A i \in 1..Len(df_charges) :
          \/ df_charges[i].amount.kind = "none"
          \/ ~AtLeastAbsMax(df_charges[i].amount)
    /\ cause # "numeric_overflow"

Survivor(i) == HasKeys(csv.rows[i])

\* C9: company uniqueness and precedence.  The companies table holds at most
\* one row per id; each derived company carries the name of the first
\* surviving input row of its company_id, one company per surviving
\* company_id; and an append keeps every company row the warehouse had.
C9_CompanyPrecedence ==
    /\ \A a, b \in companies : a.id = b.id => a = b
    /\ pc = "load" =>
         /\ \A k \in 1..Len(df_companies) :
               \E i \in 1..Len(csv.rows) :
                  /\ Survivor(i)
                  /\ csv.rows[i].company_id = df_companies[k].id
                  /\ csv.rows[i].name = df_companies[k].company_name
                  /\ \A j \in 1..(i - 1) :
                        ~(Survivor(j) /\ csv.rows[j].company_id = csv.rows[i].company_id)
         /\ \A i \in 1..Len(csv.rows) :
               Survivor(i) =>
                  Cardinality({ k \in 1..Len(df_companies) :
                                  df_companies[k].id = csv.rows[i].company_id }) = 1
    /\ (pc = "done" /\ mode = "append") => pre.companies \subseteq companies

\* an append has committed although its batch named a stored company
\* differently, and the batch itself named one company twice
C9_Witness ==
    /\ pc = "done" /\ mode = "append"
    /\ \E k \in 1..Len(df_companies) :
          \E c \in pre.companies :
             c.id = df_companies[k].id /\ c.company_name # df_companies[k].company_name
    /\ Len(df_companies) < Len(df_charges)

FirstOfId(recs) ==
    { recs[i] : i \in { n \in 1..Len(recs) : \A j \in 1..(n - 1) : recs[j].id # recs[n].id } }

\* C10 as stated: after a successful replace the tables hold exactly the
\* derived rows, all the derived companies and all the derived charges.
C10_ReplaceHoldsEveryRow ==
    (pc = "done" /\ mode = "replace")
    => /\ companies = Range(df_companies)
       /\ charges = Range(df_charges)

\* C10 amended: after a successful replace the tables hold exactly the
\* derived companies and, for each charge id of the batch, the first derived
\* charge with that id; no row of the earlier contents remains.
C10_ReplaceClearsPrior ==
    (pc = "done" /\ mode = "replace")
    => /\ companies = Range(df_companies)
       /\ charges = FirstOfId(df_charges)

\* a replace has committed over a warehouse whose companies and charges are
\* not all in the new contents
C10_Witness ==
    /\ pc = "done" /\ mode = "replace"
    /\ \E g \in pre.charges : g \notin charges
    /\ \E c \in pre.companies : c \notin companies
    /\ charges # {}

===========================================================================
